---- MODULE Spec2Model ----
(***************************************************************************)
(* pg_plan_override: per-query planner GUC overrides.                      *)
(*                                                                         *)
(* The module models src/src/pg_plan_override.c: the planner hook          *)
(* po_planner (snapshot / apply / wrapped planner call / restore), the     *)
(* rule cache and its loader load_rules with parse_jsonb_gucs, the         *)
(* two-pass matcher find_matching_rule and the LIKE-style matcher          *)
(* pattern_match.                                                          *)
(*                                                                         *)
(* C strings are sequences of one-character strings; a NULL char pointer   *)
(* is the distinguished value NullStr.  GUC values are TLA+ strings and a  *)
(* NULL value pointer is NullVal.                                          *)
(***************************************************************************)
EXTENDS Integers, Sequences, FiniteSets, TLC

VARIABLES
    po_enabled,       \* static bool po_enabled
    cached_rules,     \* static OverrideRule *cached_rules (with cached_rules_count = Len)
    cache_loaded_at,  \* static TimestampTz cache_loaded_at (0 = never)
    loading_rules,    \* static bool loading_rules
    guc,              \* the session's GUC values (guc.c), by name
    now,              \* GetCurrentTimestamp(), in seconds
    stack,            \* the C call stack: po_planner / load_rules activations
    exc,              \* the ERROR being thrown (elog longjmp), or NoError
    ev,               \* what the last step delivered to a caller of po_planner
    pm,               \* one call of pattern_match: inputs and result
    fm,               \* one call of find_matching_rule: inputs and result
    pj,               \* one call of parse_jsonb_gucs: input and result
    catalog           \* the catalog object that value "1" of setting a names exists

vars == << po_enabled, cached_rules, cache_loaded_at, loading_rules,
           guc, now, stack, exc, ev, pm, fm, pj, catalog >>

----------------------------------------------------------------------------
(* Bounds of the model *)

\* longest text and pattern given to pattern_match
MaxLen == 3
\* most rules in a rule set given to find_matching_rule
MaxRules == 2
\* activations of po_planner and pg_plan_override_refresh_cache that may be
\* nested on the call stack
MaxStack == 2
\* the clock runs from 1 to MaxTime seconds
MaxTime == 2
\* the value of pg_plan_override.cache_ttl in the modelled session, in seconds
CacheTtl == 1
\* most top-level entries in a gucs object given to parse_jsonb_gucs
MaxMembers == 2

----------------------------------------------------------------------------
(* Strings *)

NullStr == << "NULL" >>
NUL == "NUL"
Alphabet == { "a", "b", "%", "_" }

RECURSIVE StrsUpTo(_)
StrsUpTo(n) ==
    IF n = 0 THEN { << >> }
    ELSE LET shorter == StrsUpTo(n - 1)
         IN  shorter \cup { Append(s, c) : s \in { x \in shorter : Len(x) = n - 1 }, c \in Alphabet }

\* *(s + i - 1): the character at 1-based position i, the terminator past the end
At(s, i) == IF i <= Len(s) THEN s[i] ELSE NUL

----------------------------------------------------------------------------
(* pattern_match: forward scan with one remembered backtrack point *)

\* while (*p == '%') p++;
RECURSIVE SkipPercent(_, _)
SkipPercent(pattern, p) ==
    IF At(pattern, p) = "%" THEN SkipPercent(pattern, p + 1) ELSE p

\* the code after the while (*t) loop: skip trailing %, then *p == '\0'
pattern_tail(pattern, p) == At(pattern, SkipPercent(pattern, p)) = NUL

\* the while (*t) loop; tb, pb = 0 stand for the NULL backtrack pointers
RECURSIVE pattern_loop(_, _, _, _, _, _)
pattern_loop(text, pattern, t, p, tb, pb) ==
    IF At(text, t) = NUL THEN pattern_tail(pattern, p)
    ELSE IF At(pattern, p) = "%"
         THEN LET p2 == SkipPercent(pattern, p)
              IN  IF At(pattern, p2) = NUL THEN TRUE
                  ELSE pattern_loop(text, pattern, t, p2, t, p2)
    ELSE IF At(pattern, p) = "_" \/ At(pattern, p) = At(text, t)
         THEN pattern_loop(text, pattern, t + 1, p + 1, tb, pb)
    ELSE IF pb # 0
         THEN pattern_loop(text, pattern, tb + 1, pb, tb + 1, pb)
    ELSE FALSE

\* a plausible slip: on a mismatch the scan resumes at the remembered text
\* position without advancing it past the character the % has to absorb
RECURSIVE pattern_loop_nobacktrack(_, _, _, _, _, _)
pattern_loop_nobacktrack(text, pattern, t, p, tb, pb) ==
    IF At(text, t) = NUL THEN pattern_tail(pattern, p)
    ELSE IF At(pattern, p) = "%"
         THEN LET p2 == SkipPercent(pattern, p)
              IN  IF At(pattern, p2) = NUL THEN TRUE
                  ELSE pattern_loop_nobacktrack(text, pattern, t, p2, t, p2)
    ELSE IF At(pattern, p) = "_" \/ At(pattern, p) = At(text, t)
         THEN pattern_loop_nobacktrack(text, pattern, t + 1, p + 1, tb, pb)
    ELSE FALSE

pattern_match_nobacktrack(text, pattern) ==
    pattern_loop_nobacktrack(text, pattern, 1, 1, 0, 0)

pattern_match(text, pattern) == pattern_loop(text, pattern, 1, 1, 0, 0)

----------------------------------------------------------------------------
(* find_matching_rule: pass 1 by queryId, pass 2 by pattern *)

\* the test of pass 1 on one rule
id_hit(r, queryId) == r.query_id # 0 /\ r.query_id = queryId

\* a plausible slip: a rule without a pattern is taken to match any text
pattern_hit_nullmatch(r, query_string) ==
    r.query_pattern = NullStr \/ pattern_match(query_string, r.query_pattern)

\* the test of pass 2 on one rule
pattern_hit(r, query_string) ==
    r.query_pattern # NullStr /\ pattern_match(query_string, r.query_pattern)

\* pass 1: for (i = 0; i < cached_rules_count; i++) if (...) return &cached_rules[i]
RECURSIVE scan_query_id(_, _, _)
scan_query_id(rules, i, queryId) ==
    IF i > Len(rules) THEN 0
    ELSE IF id_hit(rules[i], queryId) THEN i
    ELSE scan_query_id(rules, i + 1, queryId)

\* pass 2: for (i = 0; i < cached_rules_count; i++) if (...) return &cached_rules[i]
RECURSIVE scan_pattern(_, _, _)
scan_pattern(rules, i, query_string) ==
    IF i > Len(rules) THEN 0
    ELSE IF pattern_hit(rules[i], query_string) THEN i
    ELSE scan_pattern(rules, i + 1, query_string)

pass_query_id(rules, queryId) ==
    IF queryId # 0 THEN scan_query_id(rules, 1, queryId) ELSE 0

pass_pattern(rules, query_string) ==
    IF query_string # NullStr THEN scan_pattern(rules, 1, query_string) ELSE 0

\* a plausible slip: one merged scan that takes the first rule matching either way
RECURSIVE scan_merged(_, _, _, _)
scan_merged(rules, i, queryId, query_string) ==
    IF i > Len(rules) THEN 0
    ELSE IF \/ (queryId # 0 /\ id_hit(rules[i], queryId))
            \/ (query_string # NullStr /\ pattern_hit(rules[i], query_string))
         THEN i
    ELSE scan_merged(rules, i + 1, queryId, query_string)

find_matching_rule_merged(rules, queryId, query_string) ==
    scan_merged(rules, 1, queryId, query_string)

\* a plausible slip: the pattern pass keeps scanning and returns the last hit
find_matching_rule_lastpattern(rules, queryId, query_string) ==
    LET byId == pass_query_id(rules, queryId)
        hits == { i \in 1..Len(rules) :
                    query_string # NullStr /\ pattern_hit(rules[i], query_string) }
    IN  IF byId # 0 THEN byId
        ELSE IF hits = {} THEN 0
        ELSE CHOOSE i \in hits : \A j \in hits : j <= i

\* the index (1-based) of the rule returned, 0 for NULL
find_matching_rule(rules, queryId, query_string) ==
    IF Len(rules) = 0 THEN 0
    ELSE LET byId == pass_query_id(rules, queryId)
         IN  IF byId # 0 THEN byId ELSE pass_pattern(rules, query_string)

----------------------------------------------------------------------------
(* The session's settings: GetConfigOption and set_config_option of guc.c, *)
(* as po_planner calls them (missing_ok = false; PGC_S_SESSION, elevel 0,  *)
(* so an unknown name or a rejected value raises ERROR)                    *)

NullVal == "NULL"
GucNames == { "a", "b" }
\* the values the setting's check accepts now.  Setting a stands for a
\* setting whose check hook looks its value up in the catalogs (as
\* default_text_search_config or default_tablespace do): its value "1" is
\* accepted while the object it names exists.
GoodValues(n) ==
    IF n = "a" THEN (IF catalog THEN { "0", "1" } ELSE { "0" }) ELSE { "1" }
\* the value a setting takes when set_config_option is given a NULL value
ResetVal == [ n \in GucNames |-> IF n = "a" THEN "0" ELSE NullVal ]
\* the configurations a session can be in: a NULL current value is a reset value
GucStates == { g \in [ GucNames -> { "0", "1", NullVal } ] :
                 /\ g["a"] \in { "0", "1" }
                 /\ g["b"] \in { "1", NullVal } }

GetConfigOption(g, name) ==
    IF name \in GucNames THEN [ ok |-> TRUE, val |-> g[name] ]
    ELSE [ ok |-> FALSE, val |-> NullVal ]

set_config_option(g, name, value) ==
    IF name \notin GucNames THEN [ ok |-> FALSE, guc |-> g ]
    ELSE IF value = NullVal THEN [ ok |-> TRUE, guc |-> [ g EXCEPT ![name] = ResetVal[name] ] ]
    ELSE IF value \notin GoodValues(name) THEN [ ok |-> FALSE, guc |-> g ]
    ELSE [ ok |-> TRUE, guc |-> [ g EXCEPT ![name] = value ] ]

\* for (i = 0; i < num_gucs; i++) saved_values[i] = GetConfigOption(guc_names[i])
RECURSIVE save_loop(_, _, _, _)
save_loop(g, names, i, saved) ==
    IF i > Len(names) THEN [ ok |-> TRUE, saved |-> saved ]
    ELSE LET r == GetConfigOption(g, names[i])
         IN  IF r.ok THEN save_loop(g, names, i + 1, Append(saved, r.val))
             ELSE [ ok |-> FALSE, saved |-> saved ]

\* for (i = 0; i < num_gucs; i++) set_config_option(guc_names[i], values[i]);
\* the loop ends at the first assignment that raises, at index "at"
RECURSIVE set_loop(_, _, _, _)
set_loop(g, names, values, i) ==
    IF i > Len(names) THEN [ ok |-> TRUE, guc |-> g, at |-> 0 ]
    ELSE LET r == set_config_option(g, names[i], values[i])
         IN  IF r.ok THEN set_loop(r.guc, names, values, i + 1)
             ELSE [ ok |-> FALSE, guc |-> r.guc, at |-> i ]

----------------------------------------------------------------------------
(* parse_jsonb_gucs: the gucs column (JSONB) of a rule, flattened into the  *)
(* parallel arrays guc_names / guc_values                                   *)

\* A JSONB value: a scalar (string, bool, numeric, null) with its text, or a
\* container (object, array) with its members.  A member is [key, val]; the
\* key of an array element is unused.
Scalar(type, text) == [ type |-> type, text |-> text, members |-> << >> ]
Container(type, members) == [ type |-> type, text |-> "", members |-> members ]
Member(key, val) == [ key |-> key, val |-> val ]

ScalarTypes == { "jbvString", "jbvBool", "jbvNumeric", "jbvNull" }

Token(tok, v) == [ tok |-> tok, type |-> v.type, text |-> v.text ]
KeyToken(key) == [ tok |-> "WJB_KEY", type |-> "jbvString", text |-> key ]
Mark(tok) == [ tok |-> tok, type |-> "jbvNull", text |-> "" ]

\* JsonbIteratorNext(&it, &v, skipNested = false): the tokens the iterator
\* delivers for a container, descending into every nested container
RECURSIVE ContainerTokens(_), MemberTokens(_, _, _)
ContainerTokens(v) ==
    IF v.type = "jbvObject"
    THEN << Mark("WJB_BEGIN_OBJECT") >> \o MemberTokens(v.members, 1, TRUE)
             \o << Mark("WJB_END_OBJECT") >>
    ELSE << Mark("WJB_BEGIN_ARRAY") >> \o MemberTokens(v.members, 1, FALSE)
             \o << Mark("WJB_END_ARRAY") >>

MemberTokens(members, i, inObject) ==
    IF i > Len(members) THEN << >>
    ELSE LET m == members[i]
             key == IF inObject THEN << KeyToken(m.key) >> ELSE << >>
             val == IF m.val.type \in ScalarTypes
                    THEN << Token(IF inObject THEN "WJB_VALUE" ELSE "WJB_ELEM", m.val) >>
                    ELSE ContainerTokens(m.val)
         IN  key \o val \o MemberTokens(members, i + 1, inObject)

\* lines 451-457: the text stored for a scalar value
value_text(type, text) ==
    IF type = "jbvString" THEN text
    ELSE IF type = "jbvBool" THEN (IF text = "true" THEN "on" ELSE "off")
    ELSE text                                    \* numeric_out

\* lines 430-469: the while loop over the tokens.  names may hold one entry
\* past count: names[count], written at the last WJB_KEY
RECURSIVE parse_loop(_, _, _, _, _)
parse_loop(toks, i, names, values, count) ==
    IF i > Len(toks)
    THEN [ count |-> count, names |-> SubSeq(names, 1, count), values |-> values ]
    ELSE IF toks[i].tok = "WJB_KEY"
         THEN parse_loop(toks, i + 1,
                         Append(SubSeq(names, 1, count), toks[i].text), values, count)
    ELSE IF toks[i].tok = "WJB_VALUE"
         THEN IF toks[i].type \in { "jbvString", "jbvBool", "jbvNumeric" }
              THEN parse_loop(toks, i + 1, names,
                              Append(values, value_text(toks[i].type, toks[i].text)),
                              count + 1)
              ELSE parse_loop(toks, i + 1, names, values, count)   \* continue
    ELSE parse_loop(toks, i + 1, names, values, count)

parse_jsonb_gucs(jb) == parse_loop(ContainerTokens(jb), 1, << >>, << >>, 0)

----------------------------------------------------------------------------
(* Errors, rules and requests *)

NoError == "none"
PlannerError == "planner_error"   \* raised by the wrapped planner
GucError == "guc_error"           \* raised by GetConfigOption / set_config_option
SpiError == "spi_error"           \* raised inside SPI_execute
MemError == "out_of_memory"       \* raised by palloc / pstrdup in load_rules' row loop

Rule(id, pat, names, values, prio) ==
    [ query_id |-> id, query_pattern |-> pat, guc_names |-> names,
      guc_values |-> values, priority |-> prio ]

NoRule == Rule(0, NullStr, << >>, << >>, 0)

\* a row of plan_override.override_rules as the rules query delivers it;
\* gucs is the JSONB object of the row
Row(id, pat, gucs, prio) ==
    [ query_id |-> id, query_pattern |-> pat, gucs |-> gucs, priority |-> prio ]

Str(text) == Scalar("jbvString", text)
JNull == Scalar("jbvNull", "")
Object(members) == Container("jbvObject", members)

\* what the rules table may hold when load_rules queries it (ORDER BY
\* priority DESC): two rules that apply cleanly, one with a null entry, one
\* with a nested object; a rule whose second value is rejected and a rule
\* naming an unknown setting; no rule
StoreLists ==
    { << Row(1, NullStr,
             Object(<< Member("a", Str("1")), Member("b", Str("1")),
                       Member("c", JNull) >>), 2),
         Row(0, << "a", "%" >>,
             Object(<< Member("a", Str("1")),
                       Member("b", Object(<< Member("a", Str("0")) >>)) >>), 1) >>,
      << Row(1, NullStr,
             Object(<< Member("a", Str("1")), Member("b", Str("bad")) >>), 1),
         Row(0, << "a", "_" >>, Object(<< Member("zz", Str("1")) >>), 0) >>,
      << >> }

\* lines 353-385: row i of the result becomes cached_rules[i]
load_row(row) ==
    LET p == parse_jsonb_gucs(row.gucs)
    IN  Rule(row.query_id, row.query_pattern, p.names, p.values, row.priority)

\* a plausible slip: the rows are stored in the reverse of the delivered order
load_rows_reversed(rows) ==
    [ i \in DOMAIN rows |-> load_row(rows[Len(rows) + 1 - i]) ]

load_rows(rows) == [ i \in DOMAIN rows |-> load_row(rows[i]) ]

\* lines 340-385 left by an ERROR after k rows: cached_rules_count is set
\* and the array is allocated by palloc0, so the rows not reached are zero
partial_rows(rows, k) ==
    [ i \in DOMAIN rows |-> IF i <= k THEN load_row(rows[i]) ELSE NoRule ]

\* the queries planned: one with a queryId and no text, one with text only
Requests ==
    { [ queryId |-> 1, query_string |-> NullStr ],
      [ queryId |-> 0, query_string |-> << "a", "b" >> ] }

----------------------------------------------------------------------------
(* The call stack *)

\* An activation of po_planner (kind "planner") or of
\* pg_plan_override_refresh_cache (kind "refresh"), with load_rules inlined.
\* pc is the place the activation has reached:
\*   "fast_call"     in the wrapped planner, from the fast path (lines 156-170)
\*   "check_table"   in load_rules, inside the first SPI_execute (310-315)
\*   "select_rules"  in load_rules, inside the second SPI_execute (325-330)
\*   "match"         load_rules is done or was not needed (line 181)
\*   "pass_call"     in the wrapped planner, no rule matched (lines 189-203)
\*   "planning"      in the wrapped planner inside PG_TRY, overrides applied
\* rule, dangling and saved_values are po_planner's locals; the e_, n_, pre
\* and op_err fields record what the activation saw at entry and what it has
\* done so far, for the properties to read (n_applied: the assignments of
\* the set loop that were made); r_len, r_fail and r_tried record
\* the restore: the num_gucs it read, the first entry whose assignment raised
\* (0 for none) and the last entry it attempted.
Frame(kind, q, pc) ==
    [ kind |-> kind, pc |-> pc,
      queryId |-> q.queryId, query_string |-> q.query_string,
      rule |-> NoRule, matched |-> FALSE, dangling |-> FALSE, saved_values |-> << >>,
      e_enabled |-> po_enabled, e_loading |-> loading_rules,
      e_stale |-> (cache_loaded_at = 0 \/ now - cache_loaded_at >= CacheTtl),
      pre |-> ResetVal, n_load |-> 0, n_match |-> 0, n_call |-> 0, op_err |-> NoError,
      n_applied |-> 0, r_len |-> 0, r_fail |-> 0, r_tried |-> 0 ]

NoRequest == [ queryId |-> 0, query_string |-> NullStr ]

CallPcs == { "fast_call", "pass_call", "planning" }
LoadPcs == { "check_table", "select_rules" }

Top == stack[Len(stack)]
Pop == SubSeq(stack, 1, Len(stack) - 1)
ReplaceTop(f) == [ stack EXCEPT ![Len(stack)] = f ]

At_(kinds, pcs) == stack # << >> /\ Top.kind \in kinds /\ Top.pc \in pcs
InPlanner(pcs) == At_({ "planner" }, pcs)
InLoad(pcs) == At_({ "planner", "refresh" }, pcs)

\* the wrapped planner is running
InOperation == InPlanner(CallPcs)

\* between statements; the session issues a statement only with the object
\* that value "1" of setting a names in place
Idle == stack = << >> /\ catalog

\* load_rules is under way somewhere on the stack
Loading == \E i \in DOMAIN stack : stack[i].pc \in LoadPcs

\* the wrapped planner is planning a query of the session: it may run
\* functions, which may plan queries of their own, change settings or call
\* pg_plan_override.refresh_cache().  The two queries load_rules itself issues
\* (lines 310-330) are fixed catalog and table scans: their planning calls
\* nothing back.  Dropping the object that value "1" of setting a names is
\* the last thing such code does.
InUserOperation == InOperation /\ ~Loading /\ catalog

\* what a step hands to the caller of po_planner, with the cache and the
\* settings as they were before the step
Before == [ rules |-> cached_rules, loaded_at |-> cache_loaded_at,
            loading |-> loading_rules, guc |-> guc ]
NoEvent == [ kind |-> "none" ]
Entered(f) == [ kind |-> "call", err |-> NoError, frame |-> f, before |-> Before ]
\* the save loop and the set loop are done, the wrapped planner is entered
Applied(f) == [ kind |-> "applied", err |-> NoError, frame |-> f, before |-> Before ]
Returned(f) == [ kind |-> "value", err |-> NoError, frame |-> f, before |-> Before ]
Raised(f, e) == [ kind |-> "error", err |-> e, frame |-> f, before |-> Before ]
\* load_rules, called by activation f, has ended: how, and with which rows
\* of the rules query
LoadEnded(how, f, rows) ==
    [ kind |-> "load", outcome |-> how, by |-> f.kind,
      e_stale |-> f.e_stale, e_loading |-> f.e_loading, rows |-> rows ]

----------------------------------------------------------------------------
(* po_planner: the decisions at entry *)

\* line 156: if (!po_enabled || loading_rules)
fast_path_noenabled(enabled, loading) == loading

fast_path_noguard(enabled, loading) == ~enabled

fast_path(enabled, loading) == ~enabled \/ loading

\* lines 173-176: cache_loaded_at == 0 || TimestampDifferenceExceeds(loaded, now, ttl)
cache_is_stale_strict(loaded_at, t, ttl) == loaded_at = 0 \/ t - loaded_at > ttl

cache_is_stale(loaded_at, t, ttl) == loaded_at = 0 \/ t - loaded_at >= ttl

----------------------------------------------------------------------------
(* load_rules *)

\* free_rule_cache() and MemoryContextReset(cache_context): the rule array is
\* released, so every rule pointer held by a po_planner activation dangles
Invalidate(stk) ==
    [ i \in DOMAIN stk |->
        IF stk[i].matched THEN [ stk[i] EXCEPT !.dangling = TRUE ] ELSE stk[i] ]

\* load_rules returns to the activation on top of stk: po_planner goes on to
\* line 181, pg_plan_override_refresh_cache returns
AfterLoad(stk) ==
    IF stk[Len(stk)].kind = "planner"
    THEN [ stk EXCEPT ![Len(stk)].pc = "match" ]
    ELSE SubSeq(stk, 1, Len(stk) - 1)

\* lines 286-307, called by the activation on top of stk: set the guard,
\* drop the cache, SPI_connect
load_rules_start(stk) ==
    /\ cached_rules' = << >>
    /\ UNCHANGED cache_loaded_at
    /\ \/ /\ loading_rules' = FALSE              \* SPI_connect failed (302-307)
          /\ stack' = AfterLoad(Invalidate(stk))
          /\ ev' = LoadEnded("connect_failed", stk[Len(stk)], << >>)
       \/ /\ loading_rules' = TRUE               \* the first SPI_execute starts
          /\ stack' = Invalidate(stk)
          /\ ev' = NoEvent

\* lines 310-323: the catalog query has returned
load_check_table ==
    /\ exc = NoError /\ InLoad({ "check_table" })
    /\ \/ /\ cache_loaded_at' = now              \* ret != SPI_OK_SELECT or no such table
          /\ loading_rules' = FALSE
          /\ stack' = AfterLoad(stack)
          /\ ev' = LoadEnded("no_table", Top, << >>)
       \/ /\ stack' = ReplaceTop([ Top EXCEPT !.pc = "select_rules" ])
          /\ ev' = NoEvent
          /\ UNCHANGED << cache_loaded_at, loading_rules >>
    /\ UNCHANGED << po_enabled, cached_rules, guc, now, exc, pm, fm, pj, catalog >>

\* lines 325-391: the rules query has returned
load_select_rules ==
    /\ exc = NoError /\ InLoad({ "select_rules" })
    /\ \/ /\ loading_rules' = FALSE              \* ret != SPI_OK_SELECT (332-338)
          /\ ev' = LoadEnded("query_failed", Top, << >>)
          /\ UNCHANGED << cached_rules, cache_loaded_at >>
          /\ stack' = AfterLoad(stack)
          /\ UNCHANGED exc
       \/ \E rows \in StoreLists :               \* 340-391
            /\ cached_rules' = load_rows(rows)
            /\ cache_loaded_at' = now
            /\ loading_rules' = FALSE
            /\ ev' = LoadEnded("loaded", Top, rows)
            /\ stack' = AfterLoad(stack)
            /\ UNCHANGED exc
       \/ \E rows \in StoreLists :               \* 340-385, ERROR in the row loop
          \E k \in 0..(Len(rows) - 1) :
            /\ cached_rules' = partial_rows(rows, k)
            /\ exc' = MemError
            /\ ev' = LoadEnded("raised", Top, rows)
            /\ UNCHANGED << cache_loaded_at, loading_rules, stack >>
    /\ UNCHANGED << po_enabled, guc, now, pm, fm, pj, catalog >>

\* SPI_execute raises ERROR instead of returning a code
spi_raise ==
    /\ exc = NoError /\ InLoad(LoadPcs)
    /\ exc' = SpiError
    /\ ev' = LoadEnded("raised", Top, << >>)
    /\ UNCHANGED << po_enabled, cached_rules, cache_loaded_at, loading_rules,
                    guc, now, stack, pm, fm, pj, catalog >>

\* lines 577-582: pg_plan_override_refresh_cache() calls load_rules()
refresh_cache ==
    /\ exc = NoError
    /\ Idle \/ InUserOperation
    /\ Len(stack) < MaxStack
    /\ load_rules_start(Append(stack, Frame("refresh", NoRequest, "check_table")))
    /\ UNCHANGED << po_enabled, guc, now, exc, pm, fm, pj, catalog >>

\* the ERROR leaves load_rules and pg_plan_override_refresh_cache: no
\* handler, nothing is undone
refresh_unwind ==
    /\ exc # NoError /\ At_({ "refresh" }, LoadPcs)
    /\ stack' = Pop
    /\ ev' = NoEvent
    /\ UNCHANGED << po_enabled, cached_rules, cache_loaded_at, loading_rules,
                    guc, now, exc, pm, fm, pj, catalog >>

----------------------------------------------------------------------------
(* po_planner *)

\* lines 155-179: the call of the hook, up to the wrapped planner (fast
\* path), into load_rules() (stale cache) or up to find_matching_rule
po_planner_call(q) ==
    /\ exc = NoError
    /\ Idle \/ InUserOperation \/ InLoad(LoadPcs)
    /\ Len(stack) < MaxStack
    /\ IF fast_path(po_enabled, loading_rules)
       THEN /\ stack' = Append(stack, [ Frame("planner", q, "fast_call") EXCEPT !.n_call = 1 ])
            /\ ev' = Entered([ Frame("planner", q, "fast_call") EXCEPT !.n_call = 1 ])
            /\ UNCHANGED << cached_rules, cache_loaded_at, loading_rules >>
       ELSE IF cache_is_stale(cache_loaded_at, now, CacheTtl)
       THEN load_rules_start(
                Append(stack, [ Frame("planner", q, "check_table") EXCEPT !.n_load = 1 ]))
       ELSE /\ stack' = Append(stack, Frame("planner", q, "match"))
            /\ ev' = NoEvent
            /\ UNCHANGED << cached_rules, cache_loaded_at, loading_rules >>
    /\ UNCHANGED << po_enabled, guc, now, exc, pm, fm, pj, catalog >>

\* lines 181-229: find_matching_rule, then either the pass-through call or
\* the save loop, the set loop and the entry of PG_TRY.  An ERROR raised by
\* GetConfigOption or set_config_option here leaves po_planner at once:
\* no handler is installed yet.
po_planner_match ==
    /\ exc = NoError /\ InPlanner({ "match" })
    /\ LET f == [ Top EXCEPT !.n_match = @ + 1 ]
           idx == find_matching_rule(cached_rules, f.queryId, f.query_string)
       IN  IF idx = 0
           THEN /\ stack' = ReplaceTop([ f EXCEPT !.pc = "pass_call", !.n_call = @ + 1 ])
                /\ UNCHANGED << guc, exc >>
                /\ ev' = NoEvent
           ELSE LET rule == cached_rules[idx]
                    sv == save_loop(guc, rule.guc_names, 1, << >>)
                    ap == set_loop(guc, rule.guc_names, rule.guc_values, 1)
                    g == [ f EXCEPT !.rule = rule, !.matched = TRUE, !.pre = guc,
                                    !.saved_values = sv.saved,
                                    !.n_applied = IF ~sv.ok THEN 0
                                                  ELSE IF ap.ok THEN Len(rule.guc_names)
                                                  ELSE ap.at - 1 ]
                IN  IF ~sv.ok
                    THEN /\ exc' = GucError
                         /\ stack' = Pop
                         /\ ev' = Raised(g, GucError)
                         /\ UNCHANGED guc
                    ELSE IF ~ap.ok
                    THEN /\ exc' = GucError
                         /\ guc' = ap.guc
                         /\ stack' = Pop
                         /\ ev' = Raised(g, GucError)
                    ELSE /\ guc' = ap.guc
                         /\ stack' = ReplaceTop([ g EXCEPT !.pc = "planning", !.n_call = @ + 1 ])
                         /\ ev' = Applied([ g EXCEPT !.pc = "planning", !.n_call = @ + 1 ])
                         /\ UNCHANGED exc
    /\ UNCHANGED << po_enabled, cached_rules, cache_loaded_at, loading_rules, now, pm, fm, pj, catalog >>

\* The restore loops read rule->num_gucs and rule->guc_names[i] through the
\* rule pointer.  After a reload the pointer dangles and the read is
\* undefined: it may see the old names, the names of a rule loaded since, or
\* nothing.
StoreRuleNames ==
    UNION { { load_row(l[i]).guc_names : i \in DOMAIN l } : l \in StoreLists }

RuleNamesRead(f) ==
    IF f.dangling THEN { << >> } \cup StoreRuleNames ELSE { f.rule.guc_names }

\* saved_values[i] for i < num_gucs as read: beyond the array it is garbage
Garbage == { "1", "bad" }
SavedValuesRead(f, n) ==
    { [ i \in 1..n |-> IF i <= Len(f.saved_values) THEN f.saved_values[i] ELSE x ] :
        x \in Garbage }

\* the restore loop of lines 245-253 and of lines 258-266
restore_loop_skipfirst(g, names, saved) ==
    IF Len(names) = 0 THEN set_loop(g, names, saved, 1) ELSE set_loop(g, names, saved, 2)

restore_loop(g, names, saved) == set_loop(g, names, saved, 1)

\* lines 231-254 and 269-271: the wrapped planner returned; restore inside
\* PG_TRY and return.  If the restore raises, PG_CATCH (256-268) restores
\* again and re-throws.
po_planner_return ==
    /\ exc = NoError /\ InPlanner({ "planning" })
    /\ \E names \in RuleNamesRead(Top) :
       \E saved \in SavedValuesRead(Top, Len(names)) :
         LET r == restore_loop(guc, names, saved)
             r2 == restore_loop(r.guc, names, saved)
             f == [ Top EXCEPT !.r_len = Len(names), !.r_fail = r.at,
                               !.r_tried = IF r.ok THEN Len(names)
                                           ELSE IF r2.ok THEN Len(names)
                                           ELSE IF r.at > r2.at THEN r.at ELSE r2.at ]
         IN  IF r.ok
             THEN /\ guc' = r.guc
                  /\ ev' = Returned(f)
                  /\ UNCHANGED exc
             ELSE /\ guc' = r2.guc
                  /\ exc' = GucError
                  /\ ev' = Raised(f, GucError)
    /\ stack' = Pop
    /\ UNCHANGED << po_enabled, cached_rules, cache_loaded_at, loading_rules, now, pm, fm, pj, catalog >>

\* lines 255-268: an ERROR came out of the wrapped planner; restore, re-throw
po_planner_catch ==
    /\ exc # NoError /\ InPlanner({ "planning" })
    /\ \E names \in RuleNamesRead(Top) :
       \E saved \in SavedValuesRead(Top, Len(names)) :
         LET r == restore_loop(guc, names, saved)
             e == IF r.ok THEN exc ELSE GucError
             f == [ Top EXCEPT !.op_err = exc, !.r_len = Len(names), !.r_fail = r.at,
                               !.r_tried = IF r.ok THEN Len(names) ELSE r.at ]
         IN  /\ guc' = r.guc
             /\ exc' = e
             /\ ev' = Raised(f, e)
    /\ stack' = Pop
    /\ UNCHANGED << po_enabled, cached_rules, cache_loaded_at, loading_rules, now, pm, fm, pj, catalog >>

\* lines 158-169 and 191-202: return prev_planner_hook(...) / standard_planner(...)
po_planner_passthrough_return ==
    /\ exc = NoError /\ InPlanner({ "fast_call", "pass_call" })
    /\ stack' = Pop
    /\ ev' = Returned(Top)
    /\ UNCHANGED << po_enabled, cached_rules, cache_loaded_at, loading_rules,
                    guc, now, exc, pm, fm, pj, catalog >>

\* an ERROR crosses an activation that has no PG_TRY around the place it is at
po_planner_unwind ==
    /\ exc # NoError /\ InPlanner({ "fast_call", "pass_call" } \cup LoadPcs)
    /\ stack' = Pop
    /\ ev' = Raised([ Top EXCEPT !.op_err = exc ], exc)
    /\ UNCHANGED << po_enabled, cached_rules, cache_loaded_at, loading_rules,
                    guc, now, exc, pm, fm, pj, catalog >>

----------------------------------------------------------------------------
(* The environment: the wrapped planner, the session, the clock *)

\* standard_planner (or the previous hook) raises ERROR
planner_raise ==
    /\ exc = NoError /\ InOperation
    /\ exc' = PlannerError
    /\ ev' = NoEvent
    /\ UNCHANGED << po_enabled, cached_rules, cache_loaded_at, loading_rules,
                    guc, now, stack, pm, fm, pj, catalog >>

\* the ERROR reaches the session's main loop
session_catch ==
    /\ exc # NoError /\ stack = << >>
    /\ exc' = NoError
    /\ ev' = NoEvent
    /\ UNCHANGED << po_enabled, cached_rules, cache_loaded_at, loading_rules,
                    guc, now, stack, pm, fm, pj, catalog >>

\* SET name = value or RESET name, by code the wrapped planner runs
set_guc(n, v) ==
    /\ exc = NoError
    /\ InUserOperation
    /\ set_config_option(guc, n, v).ok
    /\ set_config_option(guc, n, v).guc # guc
    /\ guc' = set_config_option(guc, n, v).guc
    /\ ev' = NoEvent
    /\ UNCHANGED << po_enabled, cached_rules, cache_loaded_at, loading_rules,
                    now, stack, exc, pm, fm, pj, catalog >>

\* code run by the wrapped planner, with overrides applied, drops the object
\* that value "1" of setting a names: from now on the check of a rejects
\* that value
drop_object ==
    /\ exc = NoError
    /\ InUserOperation /\ Top.pc = "planning"
    /\ catalog' = FALSE
    /\ ev' = NoEvent
    /\ UNCHANGED << po_enabled, cached_rules, cache_loaded_at, loading_rules,
                    guc, now, stack, exc, pm, fm, pj >>

\* the session puts the object back before its next statement
create_object ==
    /\ exc = NoError /\ stack = << >>
    /\ ~catalog
    /\ catalog' = TRUE
    /\ ev' = NoEvent
    /\ UNCHANGED << po_enabled, cached_rules, cache_loaded_at, loading_rules,
                    guc, now, stack, exc, pm, fm, pj >>

\* SET pg_plan_override.enabled, between statements
set_enabled ==
    /\ exc = NoError /\ Idle
    /\ po_enabled' = ~po_enabled
    /\ ev' = NoEvent
    /\ UNCHANGED << cached_rules, cache_loaded_at, loading_rules,
                    guc, now, stack, exc, pm, fm, pj, catalog >>

\* time passes between statements and while the planner or SPI runs
tick ==
    /\ exc = NoError /\ now < MaxTime
    /\ Idle \/ ((InOperation \/ InLoad(LoadPcs)) /\ catalog)
    /\ now' = now + 1
    /\ ev' = NoEvent
    /\ UNCHANGED << po_enabled, cached_rules, cache_loaded_at, loading_rules,
                    guc, stack, exc, pm, fm, pj, catalog >>

----------------------------------------------------------------------------
(* Specifications *)

PmIdle == [ text |-> << >>, pattern |-> << >>, called |-> FALSE, result |-> FALSE ]
FmIdle == [ rules |-> << >>, queryId |-> 0, query_string |-> NullStr,
            called |-> FALSE, result |-> 0 ]

PjIdle == [ jb |-> Container("jbvObject", << >>), called |-> FALSE,
            names |-> << >>, values |-> << >> ]

\* after _PG_init, before the first query
InitEngine ==
    /\ po_enabled = TRUE
    /\ cached_rules = << >>
    /\ cache_loaded_at = 0
    /\ loading_rules = FALSE
    /\ now = 1
    /\ stack = << >>
    /\ exc = NoError
    /\ ev = NoEvent
    /\ catalog = TRUE

Init ==
    /\ InitEngine
    /\ guc \in GucStates
    /\ pm = PmIdle
    /\ fm = FmIdle
    /\ pj = PjIdle

Next ==
    \/ \E q \in Requests : po_planner_call(q)
    \/ po_planner_match
    \/ po_planner_return
    \/ po_planner_catch
    \/ po_planner_passthrough_return
    \/ po_planner_unwind
    \/ load_check_table
    \/ load_select_rules
    \/ spi_raise
    \/ refresh_cache
    \/ refresh_unwind
    \/ planner_raise
    \/ session_catch
    \/ \E n \in GucNames, v \in { "0", "1", NullVal } : set_guc(n, v)
    \/ drop_object
    \/ create_object
    \/ set_enabled
    \/ tick

Spec == Init /\ [][Next]_vars

----------------------------------------------------------------------------
(* pattern_match on its own: every text and pattern up to MaxLen *)

InitPattern ==
    /\ InitEngine
    /\ guc = ResetVal
    /\ fm = FmIdle
    /\ pj = PjIdle
    /\ pm \in [ text : StrsUpTo(MaxLen), pattern : StrsUpTo(MaxLen),
                called : { FALSE }, result : { FALSE } ]

pattern_match_call ==
    /\ ~pm.called
    /\ pm' = [ pm EXCEPT !.called = TRUE, !.result = pattern_match(pm.text, pm.pattern) ]
    /\ UNCHANGED << po_enabled, cached_rules, cache_loaded_at, loading_rules,
                    guc, now, stack, exc, ev, fm, pj, catalog >>

SpecPattern == InitPattern /\ [][pattern_match_call]_vars

----------------------------------------------------------------------------
(* find_matching_rule on its own: every rule set of up to MaxRules rules, *)
(* in the order the rules query delivers (priority descending)             *)

RuleShapes ==
    { Rule(id, pat, << >>, << >>, prio) :
        id \in { 0, 1, 2 },
        pat \in { NullStr, << "a", "%" >>, << "%", "b" >> },
        prio \in { 0, 1 } }

RECURSIVE RuleSetsUpTo(_)
RuleSetsUpTo(n) ==
    IF n = 0 THEN { << >> }
    ELSE LET shorter == RuleSetsUpTo(n - 1)
         IN  shorter \cup
             { Append(l, r) : l \in { x \in shorter : Len(x) = n - 1 },
                              r \in RuleShapes }

ByPriority(l) == \A i \in 1..(Len(l) - 1) : l[i].priority >= l[i + 1].priority

ResolveTexts == { NullStr, << "a", "b" >>, << "b" >>, << "a" >> }

InitResolve ==
    /\ InitEngine
    /\ guc = ResetVal
    /\ pm = PmIdle
    /\ pj = PjIdle
    /\ fm \in [ rules : { l \in RuleSetsUpTo(MaxRules) : ByPriority(l) },
                queryId : { 0, 1, 2 }, query_string : ResolveTexts,
                called : { FALSE }, result : { 0 } ]

find_matching_rule_call ==
    /\ ~fm.called
    /\ fm' = [ fm EXCEPT !.called = TRUE,
                         !.result = find_matching_rule(fm.rules, fm.queryId, fm.query_string) ]
    /\ UNCHANGED << po_enabled, cached_rules, cache_loaded_at, loading_rules,
                    guc, now, stack, exc, ev, pm, pj, catalog >>

SpecResolve == InitResolve /\ [][find_matching_rule_call]_vars

----------------------------------------------------------------------------
(* parse_jsonb_gucs on its own: every gucs object of up to MaxMembers       *)
(* entries whose values are scalars, null, or a nested object or array      *)

PayloadKeys == << "a", "b", "c", "d" >>

PayloadValues ==
    { Str("1"), Scalar("jbvBool", "true"), Scalar("jbvNumeric", "0"), JNull,
      Object(<< Member("c", Str("2")) >>),
      Object(<< Member("a", JNull) >>),
      Container("jbvArray", << Member("", Str("1")) >>) }

Payloads ==
    UNION { { Object([ i \in 1..n |-> Member(PayloadKeys[i], vals[i]) ]) :
                vals \in [ 1..n -> PayloadValues ] } : n \in 0..MaxMembers }

InitParse ==
    /\ InitEngine
    /\ guc = ResetVal
    /\ pm = PmIdle
    /\ fm = FmIdle
    /\ pj \in [ jb : Payloads, called : { FALSE }, names : { << >> }, values : { << >> } ]

parse_jsonb_gucs_call ==
    /\ ~pj.called
    /\ pj' = [ pj EXCEPT !.called = TRUE,
                         !.names = parse_jsonb_gucs(pj.jb).names,
                         !.values = parse_jsonb_gucs(pj.jb).values ]
    /\ UNCHANGED << po_enabled, cached_rules, cache_loaded_at, loading_rules,
                    guc, now, stack, exc, ev, pm, fm, catalog >>

SpecParse == InitParse /\ [][parse_jsonb_gucs_call]_vars

----------------------------------------------------------------------------
(* Nested runs on their own: the wrapped planner does nothing but plan      *)
(* further queries (a function called at planning time runs a query), so    *)
(* that po_planner is re-entered; no setting is changed and no refresh is   *)
(* asked for by anything but po_planner                                     *)

NextNested ==
    \/ \E q \in Requests : po_planner_call(q)
    \/ po_planner_match
    \/ po_planner_return
    \/ po_planner_passthrough_return
    \/ po_planner_unwind
    \/ load_check_table
    \/ load_select_rules
    \/ session_catch

SpecNested == Init /\ [][NextNested]_vars

----------------------------------------------------------------------------
(* Properties *)

\* the settings a rule names that exist, and the value apply leaves in each
\* (the last occurrence of the name wins)
NamesOf(rule) == { rule.guc_names[i] : i \in DOMAIN rule.guc_names }
LastOf(rule, n) ==
    CHOOSE i \in DOMAIN rule.guc_names :
        /\ rule.guc_names[i] = n
        /\ \A j \in DOMAIN rule.guc_names : rule.guc_names[j] = n => j <= i
AppliedValue(rule, n) == rule.guc_values[LastOf(rule, n)]

\* every setting the rule names holds the value it had when the run took
\* its snapshot
RestoredTo(f) == \A n \in NamesOf(f.rule) \cap GucNames : guc[n] = f.pre[n]

\* the run of ev reached the wrapped planner with a rule's overrides applied
RanWithOverrides == ev.kind \in { "value", "error" } /\ ev.frame.pc = "planning"

\* C1: for every run that matched a rule and whose wrapped planner fails,
\* when the failure reaches the caller every setting the rule names holds
\* its value from before apply, and the failure is the planner's own.
FailedRunRestoresAndRethrows ==
    (RanWithOverrides /\ ev.frame.op_err # NoError)
        => (ev.kind = "error" /\ ev.err = ev.frame.op_err /\ RestoredTo(ev.frame))

\* when the wrapped planner ended, the named settings were as apply set them
OpLeftOverrides ==
    \A n \in NamesOf(ev.frame.rule) \cap GucNames :
        ev.before.guc[n] = AppliedValue(ev.frame.rule, n)

\* C2: snapshot, apply, a wrapped planner that succeeds and leaves the
\* named settings as apply set them, restore: every named setting is back
\* at its value from before apply.
ApplyRestoreRoundTrip ==
    (RanWithOverrides /\ ev.frame.op_err = NoError /\ OpLeftOverrides)
        => (ev.kind = "value" /\ RestoredTo(ev.frame))

\* C3: a run that matched a rule keeps one view of it until its restore is
\* done: if the rule set was reloaded while the wrapped planner ran, the
\* restore still sets exactly the snapshotted names to the snapshotted
\* values and touches nothing else.
RestoreAfterReloadUsesOwnRule ==
    (RanWithOverrides /\ ev.frame.dangling)
        => /\ RestoredTo(ev.frame)
           /\ \A n \in GucNames \ NamesOf(ev.frame.rule) : guc[n] = ev.before.guc[n]
           /\ ev.err = ev.frame.op_err

\* C4: if an assignment fails during apply, then when the failure reaches
\* the caller every setting the rule names holds its value from before the
\* run, those set before the failing one included.
FailedApplyRestores ==
    (ev.kind = "error" /\ ev.frame.pc = "match" /\ ev.frame.matched)
        => RestoredTo(ev.frame)

\* the rules of fm.rules whose query_id is the request's
IdRules == { i \in DOMAIN fm.rules : fm.rules[i].query_id = fm.queryId }
Least(S) == CHOOSE i \in S : \A j \in S : i <= j

\* C5: for a request with identity key k # 0, if some rule has identity key
\* k, resolve returns the first such rule in store order, whatever the text
\* and whatever pattern rules match it earlier or with higher priority.
ResolveIdentityFirst ==
    (fm.called /\ fm.queryId # 0 /\ IdRules # {}) => fm.result = Least(IdRules)

ResolveIdentityFirstWitness ==
    /\ fm.called /\ fm.queryId = 2 /\ fm.query_string = << "a", "b" >>
    /\ Len(fm.rules) = 2
    /\ fm.rules[1].query_id = 0 /\ fm.rules[1].query_pattern = << "a", "%" >>
    /\ fm.rules[1].priority > fm.rules[2].priority
    /\ fm.rules[2].query_id = 2
    /\ fm.result = 2

\* LIKE semantics by full backtracking: % is any run of characters, _ is any
\* one character, anything else is itself; the whole text must be consumed
RECURSIVE LikeMatch(_, _)
LikeMatch(text, pattern) ==
    IF pattern = << >> THEN text = << >>
    ELSE IF Head(pattern) = "%"
         THEN \/ LikeMatch(text, Tail(pattern))
              \/ (text # << >> /\ LikeMatch(Tail(text), pattern))
    ELSE /\ text # << >>
         /\ (Head(pattern) = "_" \/ Head(pattern) = Head(text))
         /\ LikeMatch(Tail(text), Tail(pattern))

\* the rules of fm.rules whose pattern is set and matches the request's text
PatternRules ==
    { i \in DOMAIN fm.rules :
        /\ fm.query_string # NullStr
        /\ fm.rules[i].query_pattern # NullStr
        /\ LikeMatch(fm.query_string, fm.rules[i].query_pattern) }

\* C6: when no rule matches by identity and the text is present, resolve
\* returns the first rule in store order whose pattern is set and matches;
\* when there is none, or the text is absent, it returns none.
ResolvePatternFallback ==
    (fm.called /\ (fm.queryId = 0 \/ IdRules = {}))
        => fm.result = (IF PatternRules = {} THEN 0 ELSE Least(PatternRules))

ResolvePatternFallbackWitness ==
    /\ fm.called /\ fm.queryId = 1 /\ IdRules = {}
    /\ Cardinality(PatternRules) = 2
    /\ fm.rules[1].query_pattern # fm.rules[2].query_pattern
    /\ fm.result = 1

HasWildcard(pattern) == \E i \in DOMAIN pattern : pattern[i] \in { "%", "_" }

\* C7: match(text, pattern) is true exactly when the whole text matches the
\* pattern under LIKE semantics; for a pattern without % and _ that is
\* text = pattern.
PatternMatchIsLike ==
    pm.called
        => /\ pm.result = LikeMatch(pm.text, pm.pattern)
           /\ ~HasWildcard(pm.pattern) => (pm.result = (pm.text = pm.pattern))

\* the scan has to give up its first attempt after the % and resume one
\* character further
PatternMatchIsLikeWitness ==
    /\ pm.called
    /\ pm.text = << "a", "a", "b" >> /\ pm.pattern = << "%", "a", "b" >>
    /\ pm.result = TRUE

\* the po_planner activations now on the stack or just ended
Runs ==
    { stack[i] : i \in { j \in DOMAIN stack : stack[j].kind = "planner" } }
        \cup (IF ev.kind \in { "call", "value", "error" } THEN { ev.frame } ELSE { })

\* C8: with enabled = false a run invokes the wrapped planner exactly once,
\* never loads rules and never matches; its own steps leave the rule set,
\* loadedAt and every setting as they were.
DisabledRunIsPassThrough ==
    /\ \A f \in Runs :
         ~f.e_enabled => (f.pc = "fast_call" /\ f.n_call = 1 /\ f.n_load = 0 /\ f.n_match = 0)
    /\ (ev.kind \in { "call", "value", "error" } /\ ~ev.frame.e_enabled)
         => /\ cached_rules = ev.before.rules
            /\ cache_loaded_at = ev.before.loaded_at
            /\ guc = ev.before.guc

\* a disabled run has returned although the cache was stale and held rules
DisabledRunIsPassThroughWitness ==
    /\ ev.kind = "value" /\ ~ev.frame.e_enabled /\ ~ev.frame.e_loading
    /\ ev.frame.e_stale
    /\ cached_rules # << >>
    /\ find_matching_rule(cached_rules, ev.frame.queryId, ev.frame.query_string) # 0

\* C9: a run entered with enabled = true and the guard clear starts exactly
\* one refresh if the cache is stale at entry and none otherwise; a run
\* entered while load_rules is in its store lookup starts none.
OneRefreshPerStaleRun ==
    /\ \A f \in Runs :
         (f.e_enabled /\ ~f.e_loading) => f.n_load = (IF f.e_stale THEN 1 ELSE 0)
    /\ \A i \in DOMAIN stack : \A j \in DOMAIN stack :
         (i < j /\ stack[i].pc \in LoadPcs /\ stack[j].kind = "planner")
            => stack[j].n_load = 0

\* the cache went stale by age, the run is in its one refresh, and the
\* store lookup has re-entered the hook
OneRefreshPerStaleRunWitness ==
    /\ Len(stack) = 2
    /\ stack[1].kind = "planner" /\ stack[1].pc = "select_rules"
    /\ stack[1].e_enabled /\ ~stack[1].e_loading /\ stack[1].e_stale
    /\ stack[1].n_load = 1
    /\ cache_loaded_at # 0
    /\ stack[2].kind = "planner" /\ stack[2].e_enabled /\ stack[2].n_load = 0

\* C10: a refresh in which the store is unreachable, fails or has no
\* backing table does not raise, leaves the rule set empty and advances
\* loadedAt to the current time.
FailedRefreshFailsOpen ==
    (ev.kind = "load" /\ ev.outcome # "loaded")
        => (exc = NoError /\ cached_rules = << >> /\ cache_loaded_at = now)

\* the top-level entries of a gucs object whose value is a string, a bool or
\* a number, in payload order
RECURSIVE SupportedMembers(_, _)
SupportedMembers(members, i) ==
    IF i > Len(members) THEN << >>
    ELSE (IF members[i].val.type \in { "jbvString", "jbvBool", "jbvNumeric" }
          THEN << members[i] >> ELSE << >>) \o SupportedMembers(members, i + 1)

\* C19: an entry of the payload whose value is null or a nested object or
\* array is dropped alone: the loaded settings are exactly the top-level
\* entries with scalar values, each name with its own value, in payload
\* order, and no key from inside a nested value is a setting name.
ParseKeepsTopLevelScalars ==
    pj.called
        => LET kept == SupportedMembers(pj.jb.members, 1)
           IN  /\ pj.names = [ i \in DOMAIN kept |-> kept[i].key ]
               /\ Len(pj.values) = Len(kept)
               /\ \A i \in DOMAIN kept :
                    (i <= Len(pj.values) /\ kept[i].val.type = "jbvString")
                        => pj.values[i] = kept[i].val.text
               /\ \A i \in DOMAIN pj.names :
                    pj.names[i] \in { pj.jb.members[j].key : j \in DOMAIN pj.jb.members }

\* C11: pg_plan_override.refresh_cache() is in the store lookup whenever it
\* has been called, whatever cache_loaded_at and the ttl; when the lookup
\* succeeds the rule set is the rows of the rules query, in the order
\* delivered, and cache_loaded_at is the time of the reload.
ForcedRefreshReloads ==
    /\ \A i \in DOMAIN stack : stack[i].kind = "refresh" => stack[i].pc \in LoadPcs
    /\ (ev.kind = "load" /\ ev.by = "refresh" /\ ev.outcome = "loaded")
         => /\ Len(cached_rules) = Len(ev.rows)
            /\ \A i \in DOMAIN ev.rows :
                 /\ cached_rules[i].query_id = ev.rows[i].query_id
                 /\ cached_rules[i].query_pattern = ev.rows[i].query_pattern
                 /\ cached_rules[i].priority = ev.rows[i].priority
            /\ cache_loaded_at = now

\* refresh_cache() was called with a fresh cache and has loaded two rules
ForcedRefreshReloadsWitness ==
    /\ ev.kind = "load" /\ ev.by = "refresh" /\ ev.outcome = "loaded"
    /\ ~ev.e_stale /\ ~ev.e_loading
    /\ Len(ev.rows) = 2 /\ ev.rows[1].priority > ev.rows[2].priority
    /\ cache_loaded_at = now

\* C12: when an assignment of the restore raises at entry i, after a
\* wrapped planner that returned or that failed, the restore still attempts
\* every entry after i before the error leaves po_planner; and when the
\* planner had failed, the error that reaches the caller is the planner's.
\* (Stated for runs whose rule pointer is still valid.)
FailedRestoreAttemptsRest ==
    (RanWithOverrides /\ ~ev.frame.dangling /\ ev.frame.r_fail # 0)
        => /\ ev.frame.r_tried = ev.frame.r_len
           /\ ev.frame.op_err # NoError => ev.err = ev.frame.op_err

\* C13: a refresh trigger that arrives while loading_rules is set, from a
\* nested po_planner call or from pg_plan_override.refresh_cache(), does
\* nothing: it enters no store lookup and leaves cached_rules,
\* cache_loaded_at and loading_rules as they are.
ReentrantTriggerIsNoop ==
    /\ \A i \in DOMAIN stack : stack[i].e_loading => stack[i].pc \notin LoadPcs
    /\ ev.kind = "load" => ~ev.e_loading
    /\ (ev.kind \in { "call", "value", "error" } /\ ev.frame.e_loading)
         => /\ ev.frame.n_load = 0
            /\ cached_rules = ev.before.rules
            /\ cache_loaded_at = ev.before.loaded_at
            /\ loading_rules = ev.before.loading

\* C14: in every run a refresh that was started has returned before
\* find_matching_rule is called; with a rule matched, the wrapped planner is
\* called only after every setting of the rule was saved and set; and the
\* run, once it has set any of them, returns to its caller, by value or by
\* ERROR, only after the restore has assigned every setting of the rule.
RunStepsInOrder ==
    /\ \A f \in Runs : f.pc \in LoadPcs => f.n_match = 0
    /\ \A f \in Runs :
         f.pc = "planning"
            => /\ Len(f.saved_values) = Len(f.rule.guc_names)
               /\ f.n_applied = Len(f.rule.guc_names)
    /\ (ev.kind \in { "value", "error" } /\ ev.frame.matched /\ ev.frame.n_applied > 0)
         => /\ ev.frame.r_len = Len(ev.frame.rule.guc_names)
            /\ ev.frame.r_tried = Len(ev.frame.rule.guc_names)

\* the rule sets a finished load_rules leaves
CompleteSets == { load_rows(l) : l \in StoreLists }

\* C15: find_matching_rule never scans a partially loaded rule set: when a
\* run is about to match, cached_rules is empty or the whole result of a
\* finished load; and a run entered while loading_rules is set never matches.
MatchReadsCompleteSet ==
    /\ InPlanner({ "match" }) => (cached_rules \in CompleteSets /\ ~Loading)
    /\ \A f \in Runs : f.e_loading => f.n_match = 0

\* a load was left half way, with one of two rows stored, and a run entered
\* since has returned without matching
MatchReadsCompleteSetWitness ==
    /\ cached_rules \notin CompleteSets
    /\ Len(cached_rules) = 2 /\ cached_rules[1] # NoRule /\ cached_rules[2] = NoRule
    /\ ev.kind = "value" /\ ev.frame.e_loading /\ ev.frame.n_match = 0
    /\ ~cache_is_stale(cache_loaded_at, now, CacheTtl)

\* C16: po_planner itself assigns no setting that the matched rule does not
\* name: a run that matched no rule (no match, disabled, reentrant) assigns
\* none; the set loop leaves every named setting at the value of its last
\* entry in the rule's order and the others alone; the restore leaves the
\* settings the rule does not name alone.
RunTouchesOnlyRuleNames ==
    /\ (ev.kind \in { "call", "value", "error" } /\ ~ev.frame.matched)
         => guc = ev.before.guc
    /\ ev.kind = "applied"
         => \A n \in GucNames :
              guc[n] = IF n \in NamesOf(ev.frame.rule)
                       THEN AppliedValue(ev.frame.rule, n) ELSE ev.before.guc[n]
    /\ (ev.kind \in { "value", "error" } /\ ev.frame.matched)
         => \A n \in GucNames \ NamesOf(ev.frame.rule) : guc[n] = ev.before.guc[n]

\* C17: loading_rules is set only while load_rules is executing: once
\* load_rules has been left, by return or by an ERROR raised in the store
\* lookup, the flag is clear.
FlagSetOnlyWhileLoading == loading_rules => Loading

\* C18: a run that applied rule R1 has a wrapped planner that re-enters
\* po_planner, with no refresh in between, and the nested run matches a rule
\* R2 naming some of R1's settings.  When the nested run has returned, the
\* settings R1 names hold R1's applied values; when a run has returned,
\* every setting holds its value from before that run, those named by the
\* rules of its nested runs included.
NestedRunsUnwind ==
    /\ (ev.kind = "value" /\ ev.frame.matched /\ InPlanner({ "planning" }))
         => \A n \in NamesOf(Top.rule) \cap GucNames :
              guc[n] = AppliedValue(Top.rule, n)
    /\ (ev.kind = "value" /\ ev.frame.matched) => guc = ev.frame.pre

\* the nested run, whose rule names a setting the outer run's rule also
\* names but sets differently, has returned into the outer wrapped planner
NestedRunsUnwindWitness ==
    /\ ev.kind = "value" /\ ev.frame.matched /\ InPlanner({ "planning" })
    /\ Len(stack) = 1
    /\ ev.frame.rule # Top.rule
    /\ "a" \in NamesOf(ev.frame.rule) \cap NamesOf(Top.rule)
    /\ AppliedValue(ev.frame.rule, "a") # AppliedValue(Top.rule, "a")
    /\ Top.pre["a"] # AppliedValue(Top.rule, "a")
    /\ ev.before.guc["a"] = AppliedValue(ev.frame.rule, "a")

\* a rule with neither a query_id nor a pattern
Dead(r) == r.query_id = 0 /\ r.query_pattern = NullStr
LiveRules == SelectSeq(fm.rules, LAMBDA r : ~Dead(r))

\* C20: a rule with neither query_id (zero) nor pattern (absent) is never
\* returned, whatever the request's key (zero included) and text, and its
\* presence changes nothing: the rule returned is the one returned from the
\* rule set without its dead rules.
DeadRulesInert ==
    fm.called
        => LET live == find_matching_rule(LiveRules, fm.queryId, fm.query_string)
           IN  /\ fm.result # 0 => ~Dead(fm.rules[fm.result])
               /\ live = Cardinality({ i \in 1..fm.result : ~Dead(fm.rules[i]) })
               /\ fm.result # 0 => fm.rules[fm.result] = LiveRules[live]

\* a dead rule stands first, the request has key zero, and the rule after
\* it is returned by its pattern
DeadRulesInertWitness ==
    /\ fm.called /\ fm.queryId = 0 /\ fm.query_string = << "a", "b" >>
    /\ Len(fm.rules) = 2
    /\ Dead(fm.rules[1]) /\ ~Dead(fm.rules[2])
    /\ fm.result = 2

====
